---- MODULE Spec2Model ----
(***************************************************************************)
(* A model of the qrpc server core: the per-connection serving loop        *)
(* (serveconn), the stream bookkeeping done by the writer loop, and the    *)
(* server's connection / identity registry.                                *)
(*                                                                         *)
(* The module holds several specifications over one set of variables:      *)
(*   SpecConn   connection lifecycle: newConn, SetID/bindID, Close,        *)
(*              untrack, closeUntracked, NotifyWhenClose.                  *)
(*   SpecWrite  the writer loop of one connection with callers of          *)
(*              EndWrite and of Server.PushFrame.                          *)
(*   SpecServe  one connection: reader, dispatcher, handlers, writer.      *)
(*   SpecShutdown  SpecServe with the accept loop and Server.Shutdown.     *)
(* Each specification leaves the variables of the other parts unchanged.   *)
(***************************************************************************)
EXTENDS Integers, Sequences, FiniteSets, TLC

(***************************************************************************)
(* Bounds of the model.                                                    *)
(***************************************************************************)
\* How many calls (of Close, SetID and NotifyWhenClose, on any connection)
\* the lifecycle specification makes in all.
MaxCalls == 4

\* The connections of the lifecycle specification (one binding, idx 0).
Conns == {"A", "B"}
\* The ids handlers pass to SetID ("" is rejected by SetID with a panic).
Ids == {"x", "y"}

NoConn == "none"

\* The events of a connection's teardown trace; notifier k of connection c
\* is the event <<c, k>>.
RwcCloseOk == <<"rwc.Close", 0>>
RwcCloseFail == <<"rwc.Close", 1>>
CancelCtx == <<"cancelCtx", 0>>
NoTask == <<"none", 0>>

VARIABLES
    \* ---- Server (src/server.go) ----
    mu,           \* srv.mu: the task holding it, or NoTask
    id2Conn,      \* srv.id2Conn[idx]: Ids -> connection or NoConn
    activeConn,   \* srv.activeConn[idx]: the set of tracked connections
    \* ---- serveconn (src/unnamed/part_000) ----
    created,      \* connections newConn has returned
    scid,         \* sc.id
    untrackFlag,  \* sc.untrack: 0, or 1 once the first untrack call took it
    untrackedCh,  \* sc.untrackedCh: TRUE once closed
    closeNotify,  \* sc.closeNotify: the registered notifiers, in order
    rwcClosed,    \* the socket sc.rwc is closed
    ctxDone,      \* sc.cancelCtx has been called
    \* ---- tasks ----
    pc,           \* where each task is
    conn,         \* the connection a task's Close or SetID call is made on
    tgt,          \* the connection a task's closeUntracked is tearing down
    arg,          \* the id a task's SetID call was given
    nIdx,         \* closeUntracked's loop over sc.closeNotify: next index
    nLen,         \* ... and the length of the slice it ranges over
    closeRet,     \* what a task's Close call returned: "none", "nil", "err"
    nSeen,        \* observation: how many notifiers the holder had registered
                  \* when a task's bindID found it holding the id
    \* ---- the writer loop and its clients (part_000, server.go) ----
    cs,           \* sc.cs: the stream table, requestID -> stream or NoStream
    sub,          \* per task, the frame its FrameWriter holds (StartWrite)
    ewRet,        \* per task, what its last EndWrite returned
    wcur,         \* the task whose request the writer loop holds (res)
    pushID,       \* srv.pushID
    wire,         \* the frames written to the socket, in order
    oplog,        \* the requests the writer loop has taken, in order, each
                  \* with what the loop did with it
    \* ---- reader, dispatcher and handlers (part_000) ----
    frames,       \* the request frames the reader has parsed, in order
    gate,         \* readFrames' gate, a channel of capacity 1: its length
    cur,          \* the dispatcher's res: the number of the frame it holds
    panicked,     \* per handler, whether it ended with a panic
    gated,        \* observation: the frames readMore has been called for
    ioErr,        \* observation: a socket read or write has failed
    \* ---- listener, accept loop and Shutdown (server.go) ----
    listeners,    \* srv.listeners
    lnClosed,     \* the listener has been closed
    doneChan,     \* srv.doneChan: TRUE once closed
    serveCtx,     \* the accept loop's serveCtx: TRUE once cancelled
    shutRet,      \* what Shutdown returned: "none", "nil", "lnerr"
    serveRet,     \* what the accept loop (Server.serve) returned: "none",
                  \* "ErrServerClosed", or "err" for AcceptTCP's error
    inflight,     \* observation: the handler calls that were running when
                  \* Shutdown was called
    \* ---- ServeMux (server.go) ----
    muxM,         \* mux.m: the cmds that have a handler
    muxReaders,   \* mux.mu: how many read locks are held
    muxPending,   \* mux.mu: the tasks waiting in Lock
    muxCmd,       \* per task, the arguments of its Handle or ServeQRPC
                  \* call: the cmd and, for Handle, the handler
    muxCalled,    \* observation: per task, whether its ServeQRPC call
                  \* invoked a handler
    \* ---- observations ----
    trace         \* per connection, the teardown side effects so far, in
                  \* order: RwcCloseOk, RwcCloseFail, CancelCtx, and each
                  \* notifier invoked

srvVars == <<mu, id2Conn, activeConn>>
scVars == <<created, scid, untrackFlag, untrackedCh, closeNotify, rwcClosed,
            ctxDone>>
taskVars == <<pc, conn, tgt, arg, nIdx, nLen, closeRet, nSeen>>

writeVars == <<cs, sub, ewRet, wcur, pushID, wire, oplog>>
serveVars == <<frames, gate, cur, panicked, gated>>
shutVars == <<listeners, lnClosed, doneChan, serveCtx, shutRet, serveRet,
              inflight>>
muxVars == <<muxM, muxReaders, muxPending, muxCmd, muxCalled>>
ioVars == <<writeVars, serveVars, ioErr, shutVars, muxVars>>

vars == <<srvVars, scVars, taskVars, trace, ioVars>>

(***************************************************************************)
(* Tasks of the lifecycle specification, one per call: a task calls        *)
(* Close (as a connection's reader after a read error, its writer after a  *)
(* write error, its dispatcher when serve returns, or user code), SetID    *)
(* (as a handler) or NotifyWhenClose, on a connection it picks.  Tasks are *)
(* <<"call", k>>, numbered in the order their calls start.                 *)
(***************************************************************************)
ConnTasks == {"call"} \X (1..MaxCalls)
InOrder(t) == IF t[2] = 1 THEN TRUE ELSE pc[<<t[1], t[2] - 1>>] # "idle"

(***************************************************************************)
(* Server.newConn: the connection is stored in activeConn[idx].            *)
(***************************************************************************)
newConn(c) ==
    /\ c \notin created
    /\ created' = created \cup {c}
    /\ activeConn' = activeConn \cup {c}
    /\ UNCHANGED <<mu, id2Conn, scid, untrackFlag, untrackedCh, closeNotify,
                   rwcClosed, ctxDone, taskVars, trace>>
    /\ UNCHANGED ioVars

(***************************************************************************)
(* serveconn.NotifyWhenClose: append to sc.closeNotify (no lock).          *)
(* Notifier k of connection c is named <<c, k>>.                           *)
(***************************************************************************)
NotifyWhenClose(t, sc) ==
    /\ pc[t] = "idle"
    /\ InOrder(t)
    /\ sc \in created
    /\ closeNotify' = [closeNotify EXCEPT
                         ![sc] = Append(@, <<sc, Len(@) + 1>>)]
    /\ pc' = [pc EXCEPT ![t] = "returned"]
    /\ UNCHANGED <<srvVars, created, scid, untrackFlag, untrackedCh,
                   rwcClosed, ctxDone, conn, tgt, arg, nIdx, nLen, closeRet, nSeen,
                   trace>>
    /\ UNCHANGED ioVars

(***************************************************************************)
(* Server.untrack, the registry part (src/server.go 256-259): delete the   *)
(* entry of sc.id when sc.id is set, and delete sc from activeConn.        *)
(***************************************************************************)
untrackId2Conn(m, sc) ==
    IF scid[sc] # "" THEN [m EXCEPT ![scid[sc]] = NoConn] ELSE m

\* untrack with the activeConn delete left out.
untrackActiveKept(s, sc) == s
untrackActive(s, sc) == s \ {sc}

(***************************************************************************)
(* The once-flag of Server.untrack and its channel (the serveconn fields   *)
(* untrack and untrackedCh, part_000:36-37: "only the first call to        *)
(* untrack actually do it, subsequent calls should wait for untrackedCh"). *)
(* The first call takes the flag with a compare-and-swap and reports       *)
(* ok = true; it closes sc.untrackedCh once the connection is removed from *)
(* the registry.  Every other call reports (false, sc.untrackedCh).        *)
(***************************************************************************)
untrackOk(sc) == untrackFlag[sc] = 0
untrackTake(sc) == [untrackFlag EXCEPT ![sc] = 1]
untrackedChClose(sc) == [untrackedCh EXCEPT ![sc] = TRUE]

(***************************************************************************)
(* sc.ctx (serve, line 84: context.WithCancel(ctx) on the accept loop's    *)
(* serveCtx) is done once sc.cancelCtx has been called or serveCtx has     *)
(* been cancelled.                                                         *)
(***************************************************************************)
CtxDone(sc) == ctxDone[sc] \/ serveCtx

(***************************************************************************)
(* serveconn.Close, first statement (line 302):                            *)
(* ok, ch := sc.server.untrack(sc).  The caller that takes the once-flag   *)
(* goes on to untrack, every other caller goes on to <-ch.                 *)
(***************************************************************************)
CloseCall(t, sc) ==
    /\ conn' = [conn EXCEPT ![t] = sc]
    /\ tgt' = [tgt EXCEPT ![t] = sc]
    /\ IF untrackOk(sc)
       THEN /\ untrackFlag' = untrackTake(sc)
            /\ pc' = [pc EXCEPT ![t] = "untrack"]
       ELSE /\ pc' = [pc EXCEPT ![t] = "waitCh"]
            /\ UNCHANGED untrackFlag
    /\ UNCHANGED <<srvVars, created, scid, untrackedCh, closeNotify,
                   rwcClosed, ctxDone, arg, nIdx, nLen, closeRet, nSeen, trace>>

CloseEnter(t, sc) ==
    /\ CloseCall(t, sc)
    /\ UNCHANGED ioVars

(***************************************************************************)
(* A task calls sc.Close(): the connection's reader after a read error,    *)
(* its writer after a write error, its dispatcher when serve returns, or   *)
(* user code.                                                              *)
(***************************************************************************)
Close(t, sc) ==
    /\ pc[t] = "idle"
    /\ InOrder(t)
    /\ sc \in created
    /\ CloseEnter(t, sc)

(***************************************************************************)
(* Server.untrack for the caller that took the flag, not in the lock:      *)
(* lock srv.mu, remove the connection from the registry, close             *)
(* sc.untrackedCh, unlock.                                                 *)
(***************************************************************************)
untrack(t) ==
    /\ pc[t] = "untrack"
    /\ mu = NoTask
    /\ id2Conn' = untrackId2Conn(id2Conn, conn[t])
    /\ activeConn' = untrackActive(activeConn, conn[t])
    /\ untrackedCh' = untrackedChClose(conn[t])
    /\ pc' = [pc EXCEPT ![t] = "closeUntracked"]
    /\ UNCHANGED <<mu, created, scid, untrackFlag, closeNotify, rwcClosed,
                   ctxDone, conn, tgt, arg, nIdx, nLen, closeRet, nSeen, trace>>
    /\ UNCHANGED ioVars

(***************************************************************************)
(* serveconn.Close for a caller that did not take the flag (lines          *)
(* 303-306): <-ch, and then, like the first caller, sc.closeUntracked().   *)
(***************************************************************************)
CloseWait(t) ==
    /\ pc[t] = "waitCh"
    /\ untrackedCh[conn[t]]
    /\ pc' = [pc EXCEPT ![t] = "closeUntracked"]
    /\ UNCHANGED <<srvVars, scVars, conn, tgt, arg, nIdx, nLen, closeRet, nSeen,
                   trace>>
    /\ UNCHANGED ioVars

(***************************************************************************)
(* Where a task goes when the closeUntracked it runs returns r: a task     *)
(* inside bindID (it holds srv.mu) goes on to <-ch, a task inside Close    *)
(* returns r from Close.                                                   *)
(***************************************************************************)
ReturnPc(t) == IF mu = t THEN "bindWait" ELSE "closeReturned"
ReturnVal(t, r) == IF mu = t THEN closeRet[t] ELSE r

(***************************************************************************)
(* net.Conn.Close on the socket: the first call closes it and returns nil, *)
(* every later call returns an error (use of closed network connection).   *)
(***************************************************************************)
rwcCloseErr(sc) == rwcClosed[sc]

(***************************************************************************)
(* serveconn.closeUntracked, lines 312-317: err := sc.rwc.Close(); on an   *)
(* error return it at once; otherwise sc.cancelCtx() and the start of the  *)
(* loop over sc.closeNotify (range evaluates the slice once).              *)
(***************************************************************************)
closeUntracked(t) ==
    /\ pc[t] = "closeUntracked"
    /\ LET sc == tgt[t] IN
          IF rwcCloseErr(sc)
          THEN /\ trace' = [trace EXCEPT ![sc] = Append(@, RwcCloseFail)]
               /\ pc' = [pc EXCEPT ![t] = ReturnPc(t)]
               /\ closeRet' = [closeRet EXCEPT ![t] = ReturnVal(t, "err")]
               /\ UNCHANGED <<rwcClosed, ctxDone, nLen>>
          ELSE /\ trace' = [trace EXCEPT
                              ![sc] = @ \o <<RwcCloseOk, CancelCtx>>]
               /\ rwcClosed' = [rwcClosed EXCEPT ![sc] = TRUE]
               /\ ctxDone' = [ctxDone EXCEPT ![sc] = TRUE]
               /\ IF Len(closeNotify[sc]) = 0
                  THEN /\ pc' = [pc EXCEPT ![t] = ReturnPc(t)]
                       /\ closeRet' = [closeRet EXCEPT
                                         ![t] = ReturnVal(t, "nil")]
                       /\ UNCHANGED nLen
                  ELSE /\ pc' = [pc EXCEPT ![t] = "notify"]
                       /\ nLen' = [nLen EXCEPT ![t] = Len(closeNotify[sc])]
                       /\ UNCHANGED closeRet
    /\ UNCHANGED <<srvVars, created, scid, untrackFlag, untrackedCh,
                   closeNotify, conn, tgt, arg, nIdx, nSeen>>
    /\ UNCHANGED ioVars

(***************************************************************************)
(* closeUntracked, lines 318-321: one iteration f() of the loop; after the *)
(* last one, return nil.                                                   *)
(***************************************************************************)
notify(t) ==
    /\ pc[t] = "notify"
    /\ LET sc == tgt[t] IN
          /\ trace' = [trace EXCEPT ![sc] = Append(@, closeNotify[sc][nIdx[t]])]
          /\ IF nIdx[t] = nLen[t]
             THEN /\ pc' = [pc EXCEPT ![t] = ReturnPc(t)]
                  /\ closeRet' = [closeRet EXCEPT ![t] = ReturnVal(t, "nil")]
                  /\ nIdx' = [nIdx EXCEPT ![t] = 1]
                  /\ nLen' = [nLen EXCEPT ![t] = 0]
             ELSE /\ nIdx' = [nIdx EXCEPT ![t] = @ + 1]
                  /\ UNCHANGED <<pc, closeRet, nSeen, nLen>>
    /\ UNCHANGED <<srvVars, scVars, conn, tgt, arg, nSeen>>
    /\ UNCHANGED ioVars

(***************************************************************************)
(* serveconn.SetID(id), line 190: sc.id = id (written with no lock), and   *)
(* then the call of sc.server.bindID(sc, id).                              *)
(***************************************************************************)
SetID(t, sc, id) ==
    /\ pc[t] = "idle"
    /\ InOrder(t)
    /\ sc \in created
    /\ scid' = [scid EXCEPT ![sc] = id]
    /\ conn' = [conn EXCEPT ![t] = sc]
    /\ arg' = [arg EXCEPT ![t] = id]
    /\ pc' = [pc EXCEPT ![t] = "bindID"]
    /\ UNCHANGED <<srvVars, created, untrackFlag, untrackedCh, closeNotify,
                   rwcClosed, ctxDone, tgt, nIdx, nLen, closeRet, nSeen, trace>>
    /\ UNCHANGED ioVars

(***************************************************************************)
(* serveconn.closeLocked(true), called by bindID on the holder v with      *)
(* srv.mu held.  It starts with untrack(v, inLock = true): the caller that *)
(* takes v's once-flag removes v from the registry without locking again,  *)
(* closes v.untrackedCh and goes on to v.closeUntracked(); a caller that   *)
(* does not take it gets the channel back at once.                         *)
(***************************************************************************)
closeLocked(t, v) ==
    IF untrackOk(v)
    THEN /\ untrackFlag' = untrackTake(v)
         /\ id2Conn' = untrackId2Conn(id2Conn, v)
         /\ activeConn' = untrackActive(activeConn, v)
         /\ untrackedCh' = untrackedChClose(v)
         /\ pc' = [pc EXCEPT ![t] = "closeUntracked"]
    ELSE /\ pc' = [pc EXCEPT ![t] = "bindWait"]
         /\ UNCHANGED <<id2Conn, activeConn, untrackFlag, untrackedCh>>

(***************************************************************************)
(* Server.bindID, lines 234-241: lock srv.mu and look the id up.           *)
(*   no holder:        insert sc, unlock, return;                          *)
(*   sc itself:        return (the deferred unlock runs);                  *)
(*   another holder v: v.closeLocked(true), with srv.mu held.              *)
(***************************************************************************)
bindID(t) ==
    /\ pc[t] = "bindID"
    /\ mu = NoTask
    /\ LET sc == conn[t]
           id == arg[t]
           v  == id2Conn[id]
       IN  IF v = NoConn
           THEN /\ id2Conn' = [id2Conn EXCEPT ![id] = sc]
                /\ pc' = [pc EXCEPT ![t] = "returned"]
                /\ conn' = [conn EXCEPT ![t] = NoConn]
                /\ arg' = [arg EXCEPT ![t] = ""]
                /\ UNCHANGED <<mu, activeConn, untrackFlag, untrackedCh, tgt,
                               nSeen>>
           ELSE IF v = sc
           THEN /\ pc' = [pc EXCEPT ![t] = "returned"]
                /\ conn' = [conn EXCEPT ![t] = NoConn]
                /\ arg' = [arg EXCEPT ![t] = ""]
                /\ UNCHANGED <<mu, id2Conn, activeConn, untrackFlag,
                               untrackedCh, tgt, nSeen>>
           ELSE /\ mu' = t
                /\ tgt' = [tgt EXCEPT ![t] = v]
                /\ nSeen' = [nSeen EXCEPT ![t] = Len(closeNotify[v])]
                /\ closeLocked(t, v)
                /\ UNCHANGED <<conn, arg>>
    /\ UNCHANGED <<created, scid, closeNotify, rwcClosed, ctxDone, nIdx, nLen,
                   closeRet, trace>>
    /\ UNCHANGED ioVars

(***************************************************************************)
(* Server.bindID, lines 242-246: <-ch, then srv.id2Conn[idx][id] = sc and  *)
(* the deferred unlock; SetID returns.                                     *)
(***************************************************************************)
bindInsert(t) ==
    /\ pc[t] = "bindWait"
    /\ mu = t
    /\ untrackedCh[tgt[t]]
    /\ id2Conn' = [id2Conn EXCEPT ![arg[t]] = conn[t]]
    /\ mu' = NoTask
    /\ pc' = [pc EXCEPT ![t] = "returned"]
    /\ conn' = [conn EXCEPT ![t] = NoConn]
    /\ tgt' = [tgt EXCEPT ![t] = NoConn]
    /\ arg' = [arg EXCEPT ![t] = ""]
    /\ nSeen' = [nSeen EXCEPT ![t] = 0]
    /\ UNCHANGED <<activeConn, scVars, nIdx, nLen, closeRet, trace>>
    /\ UNCHANGED ioVars

(***************************************************************************)
(* The connection lifecycle specification.                                 *)
(***************************************************************************)
InitConn ==
    /\ mu = NoTask
    /\ id2Conn = [i \in Ids |-> NoConn]
    /\ activeConn = {}
    /\ created = {}
    /\ scid = [c \in Conns |-> ""]
    /\ untrackFlag = [c \in Conns |-> 0]
    /\ untrackedCh = [c \in Conns |-> FALSE]
    /\ closeNotify = [c \in Conns |-> <<>>]
    /\ rwcClosed = [c \in Conns |-> FALSE]
    /\ ctxDone = [c \in Conns |-> FALSE]
    /\ pc = [t \in ConnTasks |-> "idle"]
    /\ conn = [t \in ConnTasks |-> NoConn]
    /\ tgt = [t \in ConnTasks |-> NoConn]
    /\ arg = [t \in ConnTasks |-> ""]
    /\ nIdx = [t \in ConnTasks |-> 1]
    /\ nLen = [t \in ConnTasks |-> 0]
    /\ closeRet = [t \in ConnTasks |-> "none"]
    /\ nSeen = [t \in ConnTasks |-> 0]
    /\ trace = [c \in Conns |-> <<>>]
    /\ cs = <<>>
    /\ sub = <<>>
    /\ ewRet = <<>>
    /\ wcur = NoTask
    /\ pushID = 0
    /\ wire = <<>>
    /\ oplog = <<>>
    /\ frames = <<>>
    /\ gate = 0
    /\ cur = 0
    /\ panicked = <<>>
    /\ gated = {}
    /\ ioErr = FALSE
    /\ listeners = {}
    /\ lnClosed = FALSE
    /\ doneChan = FALSE
    /\ serveCtx = FALSE
    /\ shutRet = "none"
    /\ serveRet = "none"
    /\ inflight = {}
    /\ muxM = {}
    /\ muxReaders = 0
    /\ muxPending = {}
    /\ muxCmd = <<>>
    /\ muxCalled = <<>>

NextConn ==
    \/ \E c \in Conns : newConn(c)
    \/ \E t \in ConnTasks, c \in Conns : NotifyWhenClose(t, c)
    \/ \E t \in ConnTasks, c \in Conns, id \in Ids : SetID(t, c, id)
    \/ \E t \in ConnTasks : bindID(t)
    \/ \E t \in ConnTasks : bindInsert(t)
    \/ \E t \in ConnTasks, c \in Conns : Close(t, c)
    \/ \E t \in ConnTasks : untrack(t)
    \/ \E t \in ConnTasks : CloseWait(t)
    \/ \E t \in ConnTasks : closeUntracked(t)
    \/ \E t \in ConnTasks : notify(t)

SpecConn == InitConn /\ [][NextConn]_vars

(***************************************************************************)
(* Observations on the teardown trace of a connection.                     *)
(***************************************************************************)
Count(seq, S) == Cardinality({k \in 1..Len(seq) : seq[k] \in S})
RwcCloseCalls(c) == Count(trace[c], {RwcCloseOk, RwcCloseFail})
CancelCalls(c) == Count(trace[c], {CancelCtx})
Fired(c, f) == Count(trace[c], {f})
Notifiers(c) == {closeNotify[c][k] : k \in 1..Len(closeNotify[c])}
AllNotified(c, n) == \A k \in 1..n : Fired(c, closeNotify[c][k]) >= 1
Returned(c) == {t \in ConnTasks : pc[t] = "closeReturned" /\ conn[t] = c}

(***************************************************************************)
(* C1: for every connection, however many tasks call Close, the socket     *)
(* close, the cancel of connCtx and each close notifier run at most once   *)
(* in total, and all the Close calls that have returned returned the same  *)
(* outcome.                                                                *)
(***************************************************************************)
C1_CloseExactlyOnce ==
    \A c \in Conns :
        /\ RwcCloseCalls(c) <= 1
        /\ CancelCalls(c) <= 1
        /\ \A f \in Notifiers(c) : Fired(c, f) <= 1
        /\ \A t1, t2 \in Returned(c) : closeRet[t1] = closeRet[t2]

(***************************************************************************)
(* C2: identity takeover.  When a SetID(id) call on connection B that      *)
(* found another connection A holding the id returns, A's socket is        *)
(* closed, all the close notifiers A had when B found it have fired, and   *)
(* id2Conn[id] is B.                                                       *)
(***************************************************************************)
C2_Takeover ==
    [][\A t \in ConnTasks :
          (pc[t] = "bindWait" /\ pc'[t] = "returned")
          => /\ id2Conn'[arg[t]] = conn[t]
             /\ rwcClosed[tgt[t]]
             /\ AllNotified(tgt[t], nSeen[t])]_vars

(***************************************************************************)
(*                    The writer loop and its clients                      *)
(***************************************************************************)
\* How many calls (of FrameWriter.EndWrite through sc.GetWriter() and of
\* Server.PushFrame) the writing specification makes in all.
MaxOps == 2

\* The connection the writing and the serving specifications are about.
ServeConn == "A"
\* The request ids of the streams user code answers on; the ids PushFrame
\* allocates come from the same number space.
ReqIDs == {1, 2}
\* The flag values user code passes to StartWrite: a PacketFlag is modelled
\* as the set of the flags that are set in it.
WriteFlags == {{}, {"End"}, {"Rst"}}
\* The flag values callers pass to PushFrame.
PushArgFlags == {{}, {"Push", "End"}}
\* The (cmd, payload) pairs callers pass to PushFrame.
PushArgs == {<<1, "p">>, <<2, "q">>}

WriteTasks == {"op"} \X (1..MaxOps)
W == <<"W", 0>>

(***************************************************************************)
(* PacketFlag: the bit tests the writer loop uses and the constant of      *)
(* PushFrame.                                                              *)
(***************************************************************************)
PushFlag == {"Push"}
IsRst(flags) == "Rst" \in flags
IsPush(flags) == "Push" \in flags
IsEnd(flags) == "End" \in flags

(***************************************************************************)
(* Stream and the stream table sc.cs.  A stream keeps outClosed and        *)
(* rstSent; IsSelfClosed is outClosed or rstSent.                          *)
(*   GetStream            read only: the stream, or none;                  *)
(*   CreateOrGetStream    the first caller creates the stream;             *)
(*   AddOutFrame, Rst     false when the stream has sent a Rst already,    *)
(*                        else the Rst is accepted and ends both halves;   *)
(*   AddOutFrame, other   false on a stream that is outClosed, else the    *)
(*                        frame is accepted and StreamEnd sets outClosed.  *)
(* When Rst and End are both set the frame is a Rst.                       *)
(***************************************************************************)
NoStream == [open |-> FALSE, outClosed |-> FALSE, rstSent |-> FALSE]
NewStream == [open |-> TRUE, outClosed |-> FALSE, rstSent |-> FALSE]
GetStream(tab, id) == tab[id]
CreateOrGetStream(tab, id) ==
    IF tab[id].open THEN tab ELSE [tab EXCEPT ![id] = NewStream]
IsSelfClosed(st) == st.outClosed \/ st.rstSent
AddOutFrameOk(st, flags) ==
    IF IsRst(flags) THEN ~st.rstSent ELSE ~st.outClosed
AddOutFrame(st, flags) ==
    IF ~AddOutFrameOk(st, flags) THEN st
    ELSE IF IsRst(flags) THEN [st EXCEPT !.rstSent = TRUE, !.outClosed = TRUE]
    ELSE IF IsEnd(flags) THEN [st EXCEPT !.outClosed = TRUE]
    ELSE st

(***************************************************************************)
(* The frame a FrameWriter holds after StartWrite and WriteBytes.  kind    *)
(* and call are observations: who built the frame ("user" through          *)
(* sc.GetWriter(), "push" in Server.PushFrame) and the arguments the       *)
(* caller of PushFrame passed.                                             *)
(***************************************************************************)
NoCall == <<0, {}, "">>
NoFrame == [id |-> 0, cmd |-> 0, flags |-> {}, payload |-> "",
            kind |-> "none", call |-> NoCall]

(***************************************************************************)
(* Where the caller of EndWrite goes on when EndWrite returns: a handler   *)
(* goes on running, handleRequestPanic (it built the frame itself, kind    *)
(* "auto") returns and the handler's call has ended, any other caller has  *)
(* its answer.                                                             *)
(***************************************************************************)
Resume(s) ==
    CASE sub[s].kind = "handler" -> "wrote"
      [] sub[s].kind = "auto" -> "ended"
      [] OTHER -> "returned"

(***************************************************************************)
(* User code, sc.GetWriter() (part_000:199-202) and then StartWrite(id, 0, *)
(* flags) and EndWrite: the task is now offering its request on            *)
(* sc.writeFrameCh.                                                        *)
(***************************************************************************)
GetWriter(t, id, flags) ==
    /\ pc[t] = "idle"
    /\ InOrder(t)
    /\ sub' = [sub EXCEPT ![t] = [id |-> id, cmd |-> 0, flags |-> flags,
                                  payload |-> "", kind |-> "user",
                                  call |-> NoCall]]
    /\ pc' = [pc EXCEPT ![t] = "EndWrite"]
    /\ UNCHANGED <<srvVars, scVars, conn, tgt, arg, nIdx, nLen, closeRet,
                   nSeen, trace, cs, ewRet, wcur, pushID, wire, oplog,
                   serveVars, ioErr>>
    /\ UNCHANGED shutVars
    /\ UNCHANGED muxVars

(***************************************************************************)
(* Server.PushFrame (server.go:288-297):                                   *)
(*   pushID := atomic.AddUint64(&srv.pushID, 1)                            *)
(*   flags &= PushFlag                                                     *)
(*   w := conn.GetWriter(); w.StartWrite(pushID, cmd, flags);              *)
(*   w.WriteBytes(payload); return w.EndWrite()                            *)
(* The counter is a uint64; it cannot wrap within the bounds of the model. *)
(***************************************************************************)
\* The increment as a plain read and write: a second caller's update is lost.
AddUint64Lost(p) == IF p = 0 THEN 1 ELSE p
AddUint64(p) == p + 1
PushFrameFlags(flags) == flags \cap PushFlag

PushFrame(t, cmd, flags, payload) ==
    /\ pc[t] = "idle"
    /\ InOrder(t)
    /\ pushID' = AddUint64(pushID)
    /\ sub' = [sub EXCEPT ![t] = [id |-> pushID', cmd |-> cmd,
                                  flags |-> PushFrameFlags(flags),
                                  payload |-> payload, kind |-> "push",
                                  call |-> <<cmd, flags, payload>>]]
    /\ pc' = [pc EXCEPT ![t] = "EndWrite"]
    /\ UNCHANGED <<srvVars, scVars, conn, tgt, arg, nIdx, nLen, closeRet,
                   nSeen, trace, cs, ewRet, wcur, wire, oplog, serveVars,
                   ioErr>>
    /\ UNCHANGED shutVars
    /\ UNCHANGED muxVars

(***************************************************************************)
(* writeFrames, the stream logic of one request (part_000:268-285): what   *)
(* the loop decides for a frame with these flags on this id, and what it   *)
(* leaves in the stream table.                                             *)
(*   "ErrRstNonExistingStream"  a Rst for an id with no stream             *)
(*   "nil"                      a Rst the stream does not need: nothing is *)
(*                              written and the caller gets nil            *)
(*   "ErrWriteAfterCloseSelf"   AddOutFrame refused the frame              *)
(*   "write"                    the frame goes to the socket (the loop's   *)
(*                              log has "ErrWrite" when that write fails)  *)
(***************************************************************************)
\* The stream logic with the result of AddOutFrame dropped for a Rst.
StreamVerdictRstUnchecked(tab, id, flags) ==
    IF IsRst(flags)
    THEN IF ~GetStream(tab, id).open THEN "ErrRstNonExistingStream"
         ELSE "write"
    ELSE IF ~IsPush(flags)
    THEN IF ~AddOutFrameOk(CreateOrGetStream(tab, id)[id], flags)
         THEN "ErrWriteAfterCloseSelf"
         ELSE "write"
    ELSE "write"

\* The stream logic with the result of AddOutFrame dropped for a frame that
\* is not a Rst.
StreamVerdictEndUnchecked(tab, id, flags) ==
    IF IsRst(flags)
    THEN IF ~GetStream(tab, id).open THEN "ErrRstNonExistingStream"
         ELSE IF ~AddOutFrameOk(GetStream(tab, id), flags) THEN "nil"
         ELSE "write"
    ELSE "write"

StreamVerdict(tab, id, flags) ==
    IF IsRst(flags)
    THEN IF ~GetStream(tab, id).open THEN "ErrRstNonExistingStream"
         ELSE IF ~AddOutFrameOk(GetStream(tab, id), flags) THEN "nil"
         ELSE "write"
    ELSE IF ~IsPush(flags)
    THEN IF ~AddOutFrameOk(CreateOrGetStream(tab, id)[id], flags)
         THEN "ErrWriteAfterCloseSelf"
         ELSE "write"
    ELSE "write"

\* The stream table when the Rst branch creates the stream it did not find.
StreamTableRstCreates(tab, id, flags) ==
    IF IsRst(flags)
    THEN [CreateOrGetStream(tab, id) EXCEPT ![id] = AddOutFrame(@, flags)]
    ELSE IF ~IsPush(flags)
    THEN [CreateOrGetStream(tab, id) EXCEPT ![id] = AddOutFrame(@, flags)]
    ELSE tab

StreamTable(tab, id, flags) ==
    IF IsRst(flags)
    THEN IF ~GetStream(tab, id).open THEN tab
         ELSE [tab EXCEPT ![id] = AddOutFrame(@, flags)]
    ELSE IF ~IsPush(flags)
    THEN [CreateOrGetStream(tab, id) EXCEPT ![id] = AddOutFrame(@, flags)]
    ELSE tab

\* Whether the loop called GetStream or CreateOrGetStream for the frame.
StreamLogic(flags) == IsRst(flags) \/ ~IsPush(flags)

(***************************************************************************)
(* writeFrames, one turn of the loop for the request of task s             *)
(* (part_000:263-292): receive from sc.writeFrameCh, run the stream logic, *)
(* and either answer on res.result at once or write the frame to the       *)
(* socket.  The write fails on a closed socket, and it may fail on an open *)
(* one (timeout, peer reset): ok is the environment's choice.  After a     *)
(* failed write the loop calls sc.Close() (line 290, the call starts in    *)
(* the same step) before it answers; the task s stays in EndWrite, its     *)
(* request held by the loop (wcur).                                        *)
(***************************************************************************)
writeFrames(s, ok) ==
    /\ pc[W] = "loop"
    /\ pc[s] = "EndWrite"
    /\ LET f == sub[s]
           v == StreamVerdict(cs, f.id, f.flags)
           written == ok /\ ~rwcClosed[ServeConn]
       IN  /\ cs' = StreamTable(cs, f.id, f.flags)
           /\ oplog' = Append(oplog,
                  [t |-> s, f |-> f, logic |-> StreamLogic(f.flags),
                   out |-> IF v = "write" /\ ~written THEN "ErrWrite" ELSE v])
           /\ IF v # "write"
              THEN /\ ewRet' = [ewRet EXCEPT ![s] = v]
                   /\ pc' = [pc EXCEPT ![s] = Resume(s)]
                   /\ UNCHANGED <<wire, wcur, ioErr>>
                   /\ UNCHANGED <<srvVars, scVars, conn, tgt, arg, nIdx, nLen,
                                  closeRet, nSeen, trace>>
              ELSE IF written
              THEN /\ wire' = Append(wire, [t |-> s, f |-> f])
                   /\ ewRet' = [ewRet EXCEPT ![s] = "nil"]
                   /\ pc' = [pc EXCEPT ![s] = Resume(s)]
                   /\ UNCHANGED <<wcur, ioErr>>
                   /\ UNCHANGED <<srvVars, scVars, conn, tgt, arg, nIdx, nLen,
                                  closeRet, nSeen, trace>>
              ELSE /\ wcur' = s
                   /\ ioErr' = TRUE
                   /\ CloseCall(W, ServeConn)
                   /\ UNCHANGED <<wire, ewRet>>
    /\ UNCHANGED <<sub, pushID, serveVars>>
    /\ UNCHANGED shutVars
    /\ UNCHANGED muxVars

(***************************************************************************)
(* writeFrames, line 292: res.result <- err once Close has returned; the   *)
(* task in EndWrite gets the write error.                                  *)
(***************************************************************************)
writeFramesResult ==
    /\ pc[W] = "closeReturned"
    /\ ewRet' = [ewRet EXCEPT ![wcur] = "ErrWrite"]
    /\ pc' = [pc EXCEPT ![wcur] = Resume(wcur), ![W] = "loop"]
    /\ wcur' = NoTask
    /\ conn' = [conn EXCEPT ![W] = NoConn]
    /\ tgt' = [tgt EXCEPT ![W] = NoConn]
    /\ closeRet' = [closeRet EXCEPT ![W] = "none"]
    /\ UNCHANGED <<srvVars, scVars, arg, nIdx, nLen, nSeen, trace, cs, sub,
                   pushID, wire, oplog, serveVars, ioErr>>
    /\ UNCHANGED shutVars
    /\ UNCHANGED muxVars

(***************************************************************************)
(* writeFrames, lines 293-294: case <-ctx.Done(): return nil.              *)
(***************************************************************************)
writeFramesDone ==
    /\ pc[W] = "loop"
    /\ CtxDone(ServeConn)
    /\ pc' = [pc EXCEPT ![W] = "exited"]
    /\ UNCHANGED <<srvVars, scVars, conn, tgt, arg, nIdx, nLen, closeRet,
                   nSeen, trace, writeVars, serveVars, ioErr>>
    /\ UNCHANGED shutVars
    /\ UNCHANGED muxVars

(***************************************************************************)
(* defaultFrameWriter.EndWrite, while the request is still on offer: the   *)
(* select on sc.writeFrameCh and ctx.Done() takes ctx.Done() and EndWrite  *)
(* returns the context's error.  Once the writer loop has taken the        *)
(* request, EndWrite waits for res.result.                                 *)
(***************************************************************************)
EndWriteCtxDone(s) ==
    /\ pc[s] = "EndWrite"
    /\ wcur # s
    /\ CtxDone(ServeConn)
    /\ ewRet' = [ewRet EXCEPT ![s] = "ErrCtx"]
    /\ pc' = [pc EXCEPT ![s] = Resume(s)]
    /\ UNCHANGED <<srvVars, scVars, conn, tgt, arg, nIdx, nLen, closeRet,
                   nSeen, trace, cs, sub, wcur, pushID, wire, oplog,
                   serveVars, ioErr>>
    /\ UNCHANGED shutVars
    /\ UNCHANGED muxVars

(***************************************************************************)
(* The writing specification: one connection, its writer loop, and MaxOps  *)
(* calls by user code and by callers of PushFrame.  At the start the       *)
(* reader has received requests on some of the ids (sc.reader.ReadFrame    *)
(* creates the stream of a request in sc.cs) and nothing has been written. *)
(***************************************************************************)
InitWrite ==
    /\ mu = NoTask
    /\ id2Conn = [i \in Ids |-> NoConn]
    /\ activeConn = {ServeConn}
    /\ created = {ServeConn}
    /\ scid = [c \in Conns |-> ""]
    /\ untrackFlag = [c \in Conns |-> 0]
    /\ untrackedCh = [c \in Conns |-> FALSE]
    /\ closeNotify = [c \in Conns |-> <<>>]
    /\ rwcClosed = [c \in Conns |-> FALSE]
    /\ ctxDone = [c \in Conns |-> FALSE]
    /\ pc = [t \in WriteTasks \cup {W} |-> IF t = W THEN "loop" ELSE "idle"]
    /\ conn = [t \in WriteTasks \cup {W} |-> NoConn]
    /\ tgt = [t \in WriteTasks \cup {W} |-> NoConn]
    /\ arg = [t \in WriteTasks \cup {W} |-> ""]
    /\ nIdx = [t \in WriteTasks \cup {W} |-> 1]
    /\ nLen = [t \in WriteTasks \cup {W} |-> 0]
    /\ closeRet = [t \in WriteTasks \cup {W} |-> "none"]
    /\ nSeen = [t \in WriteTasks \cup {W} |-> 0]
    /\ trace = [c \in Conns |-> <<>>]
    /\ \E S \in SUBSET ReqIDs :
          cs = [id \in ReqIDs \cup (1..MaxOps) |->
                   IF id \in S THEN NewStream ELSE NoStream]
    /\ sub = [t \in WriteTasks |-> NoFrame]
    /\ ewRet = [t \in WriteTasks |-> "none"]
    /\ wcur = NoTask
    /\ pushID = 0
    /\ wire = <<>>
    /\ oplog = <<>>
    /\ frames = <<>>
    /\ gate = 0
    /\ cur = 0
    /\ panicked = <<>>
    /\ gated = {}
    /\ ioErr = FALSE
    /\ listeners = {}
    /\ lnClosed = FALSE
    /\ doneChan = FALSE
    /\ serveCtx = FALSE
    /\ shutRet = "none"
    /\ serveRet = "none"
    /\ inflight = {}
    /\ muxM = {}
    /\ muxReaders = 0
    /\ muxPending = {}
    /\ muxCmd = <<>>
    /\ muxCalled = <<>>

NextWrite ==
    \/ \E t \in WriteTasks, id \in ReqIDs, fl \in WriteFlags :
          GetWriter(t, id, fl)
    \/ \E t \in WriteTasks, a \in PushArgs, fl \in PushArgFlags :
          PushFrame(t, a[1], fl, a[2])
    \/ untrack(W)
    \/ closeUntracked(W)
    \/ \E s \in WriteTasks, ok \in BOOLEAN : writeFrames(s, ok)
    \/ writeFramesResult
    \/ writeFramesDone
    \/ \E s \in WriteTasks : EndWriteCtxDone(s)

SpecWrite == InitWrite /\ [][NextWrite]_vars

(***************************************************************************)
(* Observations on the writer loop's log and on the socket.                *)
(***************************************************************************)
Taken == 1..Len(oplog)
Written == 1..Len(wire)
OnWire(t) == \E k \in Written : wire[k].t = t
PushCalls == {t \in WriteTasks : sub[t].kind = "push"}
\* Entry k of the log is a Rst (a frame with StreamEnd) that AddOutFrame
\* accepted.
Accepted(k) == oplog[k].logic /\ oplog[k].out \in {"write", "ErrWrite"}
AcceptedRst(k) == IsRst(oplog[k].f.flags) /\ Accepted(k)
AcceptedEnd(k) == IsEnd(oplog[k].f.flags) /\ Accepted(k)
\* The EndWrite call whose request is entry k of the log has returned r, if
\* it has returned.
Reported(k, r) ==
    pc[oplog[k].t] = "returned" => ewRet[oplog[k].t] = r

(***************************************************************************)
(* C7: whatever flags the caller passes, the frame PushFrame submits has   *)
(* exactly PushFlag as its flags and the caller's cmd and payload, and the *)
(* writer loop runs no stream logic for it.                                *)
(***************************************************************************)
C7_PushFrameFlags ==
    /\ \A t \in PushCalls :
          /\ sub[t].flags = PushFlag
          /\ sub[t].cmd = sub[t].call[1]
          /\ sub[t].payload = sub[t].call[3]
    /\ \A k \in Taken : oplog[k].f.kind = "push" => ~oplog[k].logic

(***************************************************************************)
(* C8 as stated: any two PushFrame calls get distinct requestIDs, and the  *)
(* push frames on the socket appear in strictly increasing requestID       *)
(* order.                                                                  *)
(***************************************************************************)
C8_PushSocketOrder ==
    /\ \A t, u \in PushCalls : t # u => sub[t].id # sub[u].id
    /\ \A i, j \in Written :
          (/\ i < j
           /\ wire[i].f.kind = "push" /\ IsPush(wire[i].f.flags)
           /\ wire[j].f.kind = "push" /\ IsPush(wire[j].f.flags))
          => wire[i].f.id < wire[j].f.id

(***************************************************************************)
(* C8 amended: the requestID a PushFrame call takes is larger than the     *)
(* requestID of every PushFrame call that took its id before (so any two   *)
(* calls get distinct ids), and larger than the requestID of every push    *)
(* frame already on the socket (so the frames of calls that do not overlap *)
(* are written in increasing requestID order).                             *)
(***************************************************************************)
C8_PushIDsMonotonic ==
    [][\A t \in WriteTasks :
          (pc[t] = "idle" /\ sub'[t].kind = "push")
          => /\ \A u \in PushCalls : sub[u].id < sub'[t].id
             /\ \A k \in Written :
                   wire[k].f.kind = "push" => wire[k].f.id < sub'[t].id]_vars

\* Two push frames of different calls are on the socket.
C8_Witness ==
    \E i, j \in Written :
        /\ i < j
        /\ wire[i].f.kind = "push" /\ wire[j].f.kind = "push"
        /\ wire[i].f.id < wire[j].f.id

(***************************************************************************)
(* C9: Rst idempotence.  Once the writer loop has had a Rst accepted on a  *)
(* stream, every later Rst on that stream is suppressed: the loop writes   *)
(* nothing for it and its EndWrite returns nil; so at most one Rst of a    *)
(* stream is ever on the socket.                                           *)
(***************************************************************************)
C9_RstIdempotent ==
    /\ \A i, j \in Taken :
          (/\ i < j
           /\ oplog[i].f.id = oplog[j].f.id
           /\ AcceptedRst(i)
           /\ IsRst(oplog[j].f.flags))
          => /\ oplog[j].out = "nil"
             /\ ~OnWire(oplog[j].t)
             /\ Reported(j, "nil")
    /\ \A i, j \in Written :
          (/\ IsRst(wire[i].f.flags) /\ IsRst(wire[j].f.flags)
           /\ wire[i].f.id = wire[j].f.id)
          => i = j

\* A second Rst on a stream has been answered after the first was accepted.
C9_Witness ==
    \E i, j \in Taken :
        /\ i < j
        /\ oplog[i].f.id = oplog[j].f.id
        /\ AcceptedRst(i)
        /\ IsRst(oplog[j].f.flags)
        /\ pc[oplog[j].t] = "returned"

(***************************************************************************)
(* C10: once a frame with StreamEnd has been accepted on a stream, every   *)
(* later frame on that stream that is neither a Rst nor a push is refused: *)
(* nothing is written for it and its EndWrite returns                      *)
(* ErrWriteAfterCloseSelf.                                                 *)
(***************************************************************************)
C10_WriteAfterCloseSelf ==
    \A i, j \in Taken :
        (/\ i < j
         /\ oplog[i].f.id = oplog[j].f.id
         /\ AcceptedEnd(i)
         /\ ~IsRst(oplog[j].f.flags)
         /\ ~IsPush(oplog[j].f.flags))
        => /\ oplog[j].out = "ErrWriteAfterCloseSelf"
           /\ ~OnWire(oplog[j].t)
           /\ Reported(j, "ErrWriteAfterCloseSelf")

\* A frame submitted after the stream's StreamEnd frame has been answered.
C10_Witness ==
    \E i, j \in Taken :
        /\ i < j
        /\ oplog[i].f.id = oplog[j].f.id
        /\ AcceptedEnd(i)
        /\ ~IsRst(oplog[j].f.flags)
        /\ ~IsPush(oplog[j].f.flags)
        /\ pc[oplog[j].t] = "returned"

(***************************************************************************)
(*                 Reader, dispatcher and request handlers                 *)
(***************************************************************************)
\* How many request frames the peer sends on the connection.
MaxFrames == 2

R == <<"R", 0>>
D == <<"D", 0>>
\* The handler call of frame n runs as task <<"h", n>>: in the dispatcher's
\* goroutine for a blocking request, in a goroutine of its own otherwise.
Handlers == {"h"} \X (1..MaxFrames)
ServeTasks == {R, D, W} \cup Handlers
\* The flags of the request frames the peer sends, and the flags a handler
\* passes to StartWrite.
RequestFlags == {{}, {"NonBlock"}}
HandlerFlags == {{"End"}}

IsNonBlock(flags) == "NonBlock" \in flags

(***************************************************************************)
(* readFrames, lines 238-241: sc.reader.ReadFrame(sc.cs) returns the next  *)
(* request frame (frame n is the request with requestID n; the frame       *)
(* reader enters its stream in sc.cs), or it fails and readFrames returns  *)
(* the error, which makes the deferred function (lines 229-233) call       *)
(* sc.Close().                                                             *)
(***************************************************************************)
ReadFrame(flags) ==
    /\ pc[R] = "read"
    /\ ~rwcClosed[ServeConn]
    /\ Len(frames) < MaxFrames
    /\ frames' = Append(frames, [id |-> Len(frames) + 1, flags |-> flags])
    /\ cs' = CreateOrGetStream(cs, Len(frames) + 1)
    /\ pc' = [pc EXCEPT ![R] = "send"]
    /\ UNCHANGED <<srvVars, scVars, conn, tgt, arg, nIdx, nLen, closeRet,
                   nSeen, trace, sub, ewRet, wcur, pushID, wire, oplog,
                   gate, cur, panicked, gated, ioErr>>
    /\ UNCHANGED shutVars
    /\ UNCHANGED muxVars

ReadFrameErr ==
    /\ pc[R] = "read"
    /\ ioErr' = TRUE
    /\ CloseCall(R, ServeConn)
    /\ UNCHANGED <<writeVars, serveVars>>
    /\ UNCHANGED shutVars
    /\ UNCHANGED muxVars

(***************************************************************************)
(* readFrames, lines 242-252: the two selects.  The send on the unbuffered *)
(* sc.readFrameCh completes when the dispatcher receives (serveRecv); both *)
(* selects also take ctx.Done(), and then readFrames returns nil.          *)
(***************************************************************************)
readFramesDone ==
    /\ pc[R] \in {"send", "gate"}
    /\ CtxDone(ServeConn)
    /\ pc' = [pc EXCEPT ![R] = "exited"]
    /\ UNCHANGED <<srvVars, scVars, conn, tgt, arg, nIdx, nLen, closeRet,
                   nSeen, trace, writeVars, serveVars, ioErr>>
    /\ UNCHANGED shutVars
    /\ UNCHANGED muxVars

readFramesGate ==
    /\ pc[R] = "gate"
    /\ gate > 0
    /\ gate' = gate - 1
    /\ pc' = [pc EXCEPT ![R] = "read"]
    /\ UNCHANGED <<srvVars, scVars, conn, tgt, arg, nIdx, nLen, closeRet,
                   nSeen, trace, writeVars, frames, cur, panicked, gated,
                   ioErr>>
    /\ UNCHANGED shutVars
    /\ UNCHANGED muxVars

(***************************************************************************)
(* serve, line 128: a request without NonBlockFlag is served in the        *)
(* dispatcher's own goroutine.                                             *)
(***************************************************************************)
InlineNever(f) == FALSE
InlineInverted(f) == IsNonBlock(f.flags)
Inline(f) == ~IsNonBlock(f.flags)

(***************************************************************************)
(* serve, lines 126-140: the dispatcher receives frame n from              *)
(* sc.readFrameCh.  A blocking request: the handler is called in place,    *)
(* readMore follows when it has returned (serveReadMore).  A NonBlock      *)
(* request: res.readMore() first, then the handler is started in a         *)
(* goroutine of its own.                                                   *)
(***************************************************************************)
serveRecv ==
    /\ pc[D] = "select"
    /\ pc[R] = "send"
    /\ LET n == Len(frames) IN
          /\ cur' = n
          /\ IF Inline(frames[n])
             THEN /\ pc' = [pc EXCEPT ![R] = "gate", ![D] = "inline",
                                      ![<<"h", n>>] = "run"]
                  /\ UNCHANGED <<gate, gated>>
             ELSE /\ gate' = gate + 1
                  /\ gated' = gated \cup {n}
                  /\ pc' = [pc EXCEPT ![R] = "gate", ![<<"h", n>>] = "run"]
    /\ UNCHANGED <<srvVars, scVars, conn, tgt, arg, nIdx, nLen, closeRet,
                   nSeen, trace, writeVars, frames, panicked, ioErr>>
    /\ UNCHANGED shutVars
    /\ UNCHANGED muxVars

(***************************************************************************)
(* handleRequestPanic, line 160: err := recover().  The panic of the       *)
(* handler, if there was one, stops here.                                  *)
(***************************************************************************)
recoverNone(panic) == ~panic
recover(panic) == TRUE

(***************************************************************************)
(* serve, lines 129-133: the handler called in place has returned (with    *)
(* its deferred handleRequestPanic); res.readMore() puts a token in the    *)
(* gate.  A panic that handleRequestPanic did not stop would unwind serve  *)
(* to its deferred function (lines 92-101), which calls sc.Close().         *)
(***************************************************************************)
serveReadMore ==
    /\ pc[D] = "inline"
    /\ pc[<<"h", cur>>] = "ended"
    /\ IF recover(panicked[<<"h", cur>>])
       THEN /\ gate < 1
            /\ gate' = gate + 1
            /\ gated' = gated \cup {cur}
            /\ pc' = [pc EXCEPT ![D] = "select"]
            /\ UNCHANGED <<srvVars, scVars, conn, tgt, arg, nIdx, nLen,
                           closeRet, nSeen, trace>>
       ELSE /\ CloseCall(D, ServeConn)
            /\ UNCHANGED <<gate, gated>>
    /\ UNCHANGED <<writeVars, frames, cur, panicked, ioErr>>
    /\ UNCHANGED shutVars
    /\ UNCHANGED muxVars

(***************************************************************************)
(* serve, lines 124-125 and 92-101: case <-ctx.Done(): return, and the     *)
(* deferred sc.Close().                                                    *)
(***************************************************************************)
serveDone ==
    /\ pc[D] = "select"
    /\ CtxDone(ServeConn)
    /\ CloseEnter(D, ServeConn)


(***************************************************************************)
(* A handler (user code behind handler.ServeQRPC) answers on the stream of *)
(* its request: StartWrite(frame.RequestID, cmd, flags) and EndWrite on    *)
(* the writer it was given.  The handlers of the model write at most one   *)
(* frame.                                                                  *)
(***************************************************************************)
ServeQRPCWrite(h, flags) ==
    /\ pc[h] = "run"
    /\ sub' = [sub EXCEPT ![h] = [id |-> frames[h[2]].id, cmd |-> 0,
                                  flags |-> flags, payload |-> "",
                                  kind |-> "handler", call |-> NoCall]]
    /\ pc' = [pc EXCEPT ![h] = "EndWrite"]
    /\ UNCHANGED <<srvVars, scVars, conn, tgt, arg, nIdx, nLen, closeRet,
                   nSeen, trace, cs, ewRet, wcur, pushID, wire, oplog,
                   serveVars, ioErr>>
    /\ UNCHANGED shutVars
    /\ UNCHANGED muxVars

(***************************************************************************)
(* The handler returns or panics, and the deferred handleRequestPanic      *)
(* (part_000:159-183) runs: recover, and when the request's stream is not  *)
(* self-closed, a frame with StreamRstFlag on the request's id through a   *)
(* writer of its own (sc.GetWriter(), StartWrite, EndWrite).               *)
(***************************************************************************)
handleRequestPanicNoRst(h, panic) ==
    /\ pc[h] \in {"run", "wrote"}
    /\ panicked' = [panicked EXCEPT ![h] = panic]
    /\ pc' = [pc EXCEPT ![h] = "ended"]
    /\ UNCHANGED sub
    /\ UNCHANGED <<srvVars, scVars, conn, tgt, arg, nIdx, nLen, closeRet,
                   nSeen, trace, cs, ewRet, wcur, pushID, wire, oplog,
                   frames, gate, cur, gated, ioErr>>
    /\ UNCHANGED shutVars
    /\ UNCHANGED muxVars

handleRequestPanic(h, panic) ==
    /\ pc[h] \in {"run", "wrote"}
    /\ panicked' = [panicked EXCEPT ![h] = panic]
    /\ IF ~IsSelfClosed(cs[frames[h[2]].id])
       THEN /\ sub' = [sub EXCEPT ![h] = [id |-> frames[h[2]].id, cmd |-> 0,
                                          flags |-> {"Rst"}, payload |-> "",
                                          kind |-> "auto", call |-> NoCall]]
            /\ pc' = [pc EXCEPT ![h] = "EndWrite"]
       ELSE /\ pc' = [pc EXCEPT ![h] = "ended"]
            /\ UNCHANGED sub
    /\ UNCHANGED <<srvVars, scVars, conn, tgt, arg, nIdx, nLen, closeRet,
                   nSeen, trace, cs, ewRet, wcur, pushID, wire, oplog,
                   frames, gate, cur, gated, ioErr>>
    /\ UNCHANGED shutVars
    /\ UNCHANGED muxVars

(***************************************************************************)
(* The serving specification: one connection after serve has started its   *)
(* reader and its writer (lines 113-118), the peer sending up to MaxFrames *)
(* requests.                                                               *)
(***************************************************************************)
InitServe ==
    /\ mu = NoTask
    /\ id2Conn = [i \in Ids |-> NoConn]
    /\ activeConn = {ServeConn}
    /\ created = {ServeConn}
    /\ scid = [c \in Conns |-> ""]
    /\ untrackFlag = [c \in Conns |-> 0]
    /\ untrackedCh = [c \in Conns |-> FALSE]
    /\ closeNotify = [c \in Conns |-> <<>>]
    /\ rwcClosed = [c \in Conns |-> FALSE]
    /\ ctxDone = [c \in Conns |-> FALSE]
    /\ pc = [t \in ServeTasks |->
               CASE t = R -> "read" [] t = D -> "select" [] t = W -> "loop"
                 [] OTHER -> "new"]
    /\ conn = [t \in ServeTasks |-> NoConn]
    /\ tgt = [t \in ServeTasks |-> NoConn]
    /\ arg = [t \in ServeTasks |-> ""]
    /\ nIdx = [t \in ServeTasks |-> 1]
    /\ nLen = [t \in ServeTasks |-> 0]
    /\ closeRet = [t \in ServeTasks |-> "none"]
    /\ nSeen = [t \in ServeTasks |-> 0]
    /\ trace = [c \in Conns |-> <<>>]
    /\ cs = [id \in 1..MaxFrames |-> NoStream]
    /\ sub = [t \in Handlers |-> NoFrame]
    /\ ewRet = [t \in Handlers |-> "none"]
    /\ wcur = NoTask
    /\ pushID = 0
    /\ wire = <<>>
    /\ oplog = <<>>
    /\ frames = <<>>
    /\ gate = 0
    /\ cur = 0
    /\ panicked = [t \in Handlers |-> FALSE]
    /\ gated = {}
    /\ ioErr = FALSE
    /\ listeners = {}
    /\ lnClosed = FALSE
    /\ doneChan = FALSE
    /\ serveCtx = FALSE
    /\ shutRet = "none"
    /\ serveRet = "none"
    /\ inflight = {}
    /\ muxM = {}
    /\ muxReaders = 0
    /\ muxPending = {}
    /\ muxCmd = <<>>
    /\ muxCalled = <<>>

NextServe ==
    \/ \E fl \in RequestFlags : ReadFrame(fl)
    \/ ReadFrameErr
    \/ readFramesDone
    \/ readFramesGate
    \/ serveRecv
    \/ serveReadMore
    \/ serveDone
    \/ \E h \in Handlers, fl \in HandlerFlags : ServeQRPCWrite(h, fl)
    \/ \E h \in Handlers, panic \in BOOLEAN : handleRequestPanic(h, panic)
    \/ \E s \in Handlers : EndWriteCtxDone(s)
    \/ \E s \in Handlers, ok \in BOOLEAN : writeFrames(s, ok)
    \/ writeFramesResult
    \/ writeFramesDone
    \/ \E t \in {R, D, W} : untrack(t)
    \/ \E t \in {R, D, W} : CloseWait(t)
    \/ \E t \in {R, D, W} : closeUntracked(t)

SpecServe == InitServe /\ [][NextServe]_vars

(***************************************************************************)
(* Observations on the requests of the serving specification.              *)
(***************************************************************************)
Received == 1..Len(frames)
Blocking(n) == ~IsNonBlock(frames[n].flags)
H(n) == <<"h", n>>
Started(n) == pc[H(n)] # "new"
Ended(n) == pc[H(n)] = "ended"
\* The frames of handler call n (its own and the Rst of its
\* handleRequestPanic) that the writer loop sent to the socket are on it.
ResponsesWritten(n) ==
    \A k \in Taken :
        (oplog[k].t = H(n) /\ oplog[k].out = "write")
        => \E w \in Written : wire[w].t = H(n) /\ wire[w].f = oplog[k].f
\* The Rst frames with requestID id on the socket.
RstOnWire(id) ==
    {w \in Written : wire[w].f.id = id /\ IsRst(wire[w].f.flags)}
\* Handler call n ended in a panic, its stream was not self-closed when
\* handleRequestPanic looked, and the EndWrite of the Rst returned nil.
PanicRstSent(n) ==
    /\ Ended(n)
    /\ panicked[H(n)]
    /\ sub[H(n)].kind = "auto"
    /\ ewRet[H(n)] = "nil"
\* Some task has called sc.Close().
CloseCalled == untrackFlag[ServeConn] = 1

(***************************************************************************)
(* C3: for two blocking requests r1 before r2 in arrival order, when r2's  *)
(* handler has begun, r1's handler has returned, no EndWrite of it is      *)
(* pending, and every frame of it that the writer loop sent to the socket  *)
(* is on the socket.                                                       *)
(***************************************************************************)
C3_BlockingInOrder ==
    \A n1, n2 \in Received :
        (n1 < n2 /\ Blocking(n1) /\ Blocking(n2) /\ Started(n2))
        => Ended(n1) /\ ResponsesWritten(n1)

\* The handler of a second blocking request runs after the first one wrote
\* a response.
C3_Witness ==
    \E n1, n2 \in Received :
        /\ n1 < n2 /\ Blocking(n1) /\ Blocking(n2) /\ Started(n2)
        /\ \E w \in Written : wire[w].t = H(n1)

(***************************************************************************)
(* C4: the reader has parsed frame n+1 only if readMore has been called    *)
(* for frame n, so at most one parsed frame is between reader and          *)
(* dispatcher (and the gate never holds more than its one token); for a    *)
(* blocking request readMore is called only after its handler returned.    *)
(***************************************************************************)
C4_Backpressure ==
    /\ \A n \in Received : n > 1 => (n - 1) \in gated
    /\ Cardinality(Received \ gated) <= 1
    /\ gate <= 1
    /\ \A n \in gated : Blocking(n) => Ended(n)

\* The reader has parsed a second frame after a blocking first one.
C4_Witness ==
    /\ Len(frames) >= 2
    /\ Blocking(1)
    /\ 1 \in gated

(***************************************************************************)
(* C6: a handler panic is answered with a Rst and the connection is kept.  *)
(* When handleRequestPanic has sent the Rst of a panicked handler (the     *)
(* stream was not self-closed, EndWrite returned nil), exactly one frame   *)
(* with the request's id and StreamRstFlag is on the socket; no task calls *)
(* Close unless a socket read or write failed; and the dispatcher, when    *)
(* the handler it called in place has ended, goes back to its select.      *)
(***************************************************************************)
C6_PanicRst ==
    /\ [](\A n \in Received :
             PanicRstSent(n) => Cardinality(RstOnWire(frames[n].id)) = 1)
    /\ [](CloseCalled => ioErr)
    /\ [][(pc[D] = "inline" /\ pc'[D] # "inline") => pc'[D] = "select"]_vars

\* A blocking handler panicked, its Rst is on the socket, the connection is
\* open and the handler of a later frame has begun.
C6_Witness ==
    \E n1, n2 \in Received :
        /\ n1 < n2
        /\ Blocking(n1)
        /\ PanicRstSent(n1)
        /\ Started(n2)
        /\ ~rwcClosed[ServeConn]

(***************************************************************************)
(*                   Listener, accept loop and Shutdown                    *)
(***************************************************************************)
S == <<"S", 0>>
L == <<"L", 0>>
Ln == "ln"
ShutdownTasks == ServeTasks \cup {S, L}

(***************************************************************************)
(* Server.serve, the accept loop (server.go:153-180) once AcceptTCP fails: *)
(* it fails for good when the listener is closed, and a scheduled timeout  *)
(* finds srv.doneChan closed.  serve returns ErrServerClosed when          *)
(* srv.doneChan is closed (lines 157-161) and else the error of AcceptTCP  *)
(* on the closed listener, which is neither a timeout nor temporary (line  *)
(* 179); its deferred functions run, last registered first:                *)
(* cancelFunc() cancels serveCtx, then trackListener(l, false), l.Close(). *)
(***************************************************************************)
serveReturn ==
    /\ pc[L] = "accept"
    /\ lnClosed \/ doneChan
    /\ serveRet' = IF doneChan THEN "ErrServerClosed" ELSE "err"
    /\ serveCtx' = TRUE
    /\ pc' = [pc EXCEPT ![L] = "trackListener"]
    /\ UNCHANGED <<srvVars, scVars, conn, tgt, arg, nIdx, nLen, closeRet,
                   nSeen, trace, writeVars, serveVars, ioErr, listeners,
                   lnClosed, doneChan, shutRet, inflight>>
    /\ UNCHANGED muxVars

(***************************************************************************)
(* Server.trackListener(l, false) (lines 206-214) under srv.mu, and the    *)
(* deferred l.Close(); the accept loop's goroutine is done.                *)
(***************************************************************************)
trackListener ==
    /\ pc[L] = "trackListener"
    /\ mu = NoTask
    /\ listeners' = listeners \ {Ln}
    /\ lnClosed' = TRUE
    /\ pc' = [pc EXCEPT ![L] = "exited"]
    /\ UNCHANGED <<srvVars, scVars, conn, tgt, arg, nIdx, nLen, closeRet,
                   nSeen, trace, writeVars, serveVars, ioErr, doneChan,
                   serveCtx, shutRet, inflight>>
    /\ UNCHANGED serveRet
    /\ UNCHANGED muxVars

(***************************************************************************)
(* Server.Shutdown, lines 272-277: lock srv.mu, closeListenersLocked       *)
(* (299-307: ln.Close() and delete for every tracked listener; err says    *)
(* whether that Close fails).  On an error Shutdown returns it at once,    *)
(* srv.mu still locked; otherwise it unlocks.                              *)
(***************************************************************************)
Shutdown(err) ==
    /\ pc[S] = "idle"
    /\ mu = NoTask
    /\ inflight' = {n \in 1..Len(frames) : pc[<<"h", n>>] \notin {"new", "ended"}}
    /\ listeners' = {}
    /\ IF listeners # {} /\ err
       THEN /\ mu' = S
            /\ shutRet' = "lnerr"
            /\ pc' = [pc EXCEPT ![S] = "returned"]
            /\ UNCHANGED lnClosed
       ELSE /\ lnClosed' = (lnClosed \/ listeners # {})
            /\ pc' = [pc EXCEPT ![S] = "closeDone"]
            /\ UNCHANGED <<mu, shutRet>>
    /\ UNCHANGED <<id2Conn, activeConn, scVars, conn, tgt, arg, nIdx, nLen,
                   closeRet, nSeen, trace, writeVars, serveVars, ioErr,
                   doneChan, serveCtx>>
    /\ UNCHANGED serveRet
    /\ UNCHANGED muxVars

(***************************************************************************)
(* Server.Shutdown, line 279: close(srv.doneChan).                         *)
(***************************************************************************)
ShutdownCloseDone ==
    /\ pc[S] = "closeDone"
    /\ doneChan' = TRUE
    /\ pc' = [pc EXCEPT ![S] = "wait"]
    /\ UNCHANGED <<srvVars, scVars, conn, tgt, arg, nIdx, nLen, closeRet,
                   nSeen, trace, writeVars, serveVars, ioErr, listeners,
                   lnClosed, serveCtx, shutRet, inflight>>
    /\ UNCHANGED serveRet
    /\ UNCHANGED muxVars

(***************************************************************************)
(* srv.wg counts the goroutines started with goFunc(&srv.wg, ...): the     *)
(* accept loop (line 119) and c.serve of every connection (line 184).  The *)
(* reader, the writer and the NonBlock handlers of a connection are        *)
(* started with GoFunc(&sc.wg, ...) (part_000:113-118, 136-139); nothing   *)
(* waits for sc.wg.  c.serve has returned when its deferred sc.Close()     *)
(* has.                                                                    *)
(***************************************************************************)
srvWgDone == pc[L] = "exited" /\ pc[D] = "closeReturned"

(***************************************************************************)
(* Server.Shutdown, lines 281-283: srv.wg.Wait(); return nil.              *)
(***************************************************************************)
ShutdownWait ==
    /\ pc[S] = "wait"
    /\ srvWgDone
    /\ shutRet' = "nil"
    /\ pc' = [pc EXCEPT ![S] = "returned"]
    /\ UNCHANGED <<srvVars, scVars, conn, tgt, arg, nIdx, nLen, closeRet,
                   nSeen, trace, writeVars, serveVars, ioErr, listeners,
                   lnClosed, doneChan, serveCtx, inflight>>
    /\ UNCHANGED serveRet
    /\ UNCHANGED muxVars

(***************************************************************************)
(* The shutdown specification: the server with its listener tracked, the   *)
(* accept loop running, one accepted connection being served, and one call *)
(* of Shutdown.                                                            *)
(***************************************************************************)
InitShutdown ==
    /\ mu = NoTask
    /\ id2Conn = [i \in Ids |-> NoConn]
    /\ activeConn = {ServeConn}
    /\ created = {ServeConn}
    /\ scid = [c \in Conns |-> ""]
    /\ untrackFlag = [c \in Conns |-> 0]
    /\ untrackedCh = [c \in Conns |-> FALSE]
    /\ closeNotify = [c \in Conns |-> <<>>]
    /\ rwcClosed = [c \in Conns |-> FALSE]
    /\ ctxDone = [c \in Conns |-> FALSE]
    /\ pc = [t \in ShutdownTasks |->
               CASE t = R -> "read" [] t = D -> "select" [] t = W -> "loop"
                 [] t = S -> "idle" [] t = L -> "accept" [] OTHER -> "new"]
    /\ conn = [t \in ShutdownTasks |-> NoConn]
    /\ tgt = [t \in ShutdownTasks |-> NoConn]
    /\ arg = [t \in ShutdownTasks |-> ""]
    /\ nIdx = [t \in ShutdownTasks |-> 1]
    /\ nLen = [t \in ShutdownTasks |-> 0]
    /\ closeRet = [t \in ShutdownTasks |-> "none"]
    /\ nSeen = [t \in ShutdownTasks |-> 0]
    /\ trace = [c \in Conns |-> <<>>]
    /\ cs = [id \in 1..MaxFrames |-> NoStream]
    /\ sub = [t \in Handlers |-> NoFrame]
    /\ ewRet = [t \in Handlers |-> "none"]
    /\ wcur = NoTask
    /\ pushID = 0
    /\ wire = <<>>
    /\ oplog = <<>>
    /\ frames = <<>>
    /\ gate = 0
    /\ cur = 0
    /\ panicked = [t \in Handlers |-> FALSE]
    /\ gated = {}
    /\ ioErr = FALSE
    /\ listeners = {Ln}
    /\ lnClosed = FALSE
    /\ doneChan = FALSE
    /\ serveCtx = FALSE
    /\ shutRet = "none"
    /\ serveRet = "none"
    /\ inflight = {}
    /\ muxM = {}
    /\ muxReaders = 0
    /\ muxPending = {}
    /\ muxCmd = <<>>
    /\ muxCalled = <<>>

NextShutdown ==
    \/ NextServe
    \/ serveReturn
    \/ trackListener
    \/ \E err \in BOOLEAN : Shutdown(err)
    \/ ShutdownCloseDone
    \/ ShutdownWait

SpecShutdown == InitShutdown /\ [][NextShutdown]_vars

(***************************************************************************)
(* C5: when Shutdown has returned (nil), the listener is closed and every  *)
(* handler call that was running when Shutdown was called, in the          *)
(* dispatcher or in a goroutine of its own, has returned.                  *)
(***************************************************************************)
C5_GracefulShutdown ==
    (pc[S] = "returned" /\ shutRet = "nil")
    => /\ lnClosed
       /\ \A n \in inflight : pc[<<"h", n>>] = "ended"

(***************************************************************************)
(* C11: a stream-level rejection has no side effects.  In the step in      *)
(* which the writer loop rejects a request with ErrRstNonExistingStream or *)
(* ErrWriteAfterCloseSelf, the EndWrite caller gets that error, nothing is *)
(* written to the socket, the stream table is unchanged (no stream is      *)
(* created), no Close is started, and the loop is back at its select.      *)
(***************************************************************************)
Rejections == {"ErrRstNonExistingStream", "ErrWriteAfterCloseSelf"}

C11_RejectionNoSideEffect ==
    [][(/\ Len(oplog') = Len(oplog) + 1
        /\ oplog'[Len(oplog')].out \in Rejections)
       => /\ ewRet'[oplog'[Len(oplog')].t] = oplog'[Len(oplog')].out
          /\ wire' = wire
          /\ cs' = cs
          /\ untrackFlag' = untrackFlag
          /\ rwcClosed' = rwcClosed
          /\ ctxDone' = ctxDone
          /\ pc'[W] = "loop"]_vars

\* A request was rejected and a later request has been written.
C11_Witness ==
    \E i, j \in Taken :
        /\ i < j
        /\ oplog[i].out \in Rejections
        /\ oplog[j].out = "write"
        /\ OnWire(oplog[j].t)
        /\ ~rwcClosed[ServeConn]

(***************************************************************************)
(* C12: activeConn holds a connection exactly when newConn has created it  *)
(* and it has not been untracked yet; a step that removes a connection     *)
(* lowers the count of active connections by exactly one; and when the     *)
(* Close call that tears a connection down returns nil, the connection is  *)
(* out of activeConn and every close notifier its loop ranged over has     *)
(* been invoked.                                                           *)
(***************************************************************************)
C12_ActiveConn ==
    /\ [](\A c \in Conns :
             c \in activeConn <=> (c \in created /\ ~untrackedCh[c]))
    /\ [][(activeConn' # activeConn /\ created' = created)
          => /\ activeConn' \subseteq activeConn
             /\ Cardinality(activeConn') = Cardinality(activeConn) - 1]_vars
    /\ [][\A t \in ConnTasks :
             (/\ pc[t] \in {"closeUntracked", "notify"}
              /\ pc'[t] = "closeReturned"
              /\ closeRet'[t] = "nil")
             => /\ tgt[t] \notin activeConn'
                /\ \A k \in 1..nLen[t] :
                      Count(trace'[tgt[t]], {closeNotify[tgt[t]][k]}) >= 1]_vars

\* A connection with a registered notifier has been closed: it is out of
\* activeConn, its notifier has fired, and the other connection is active.
C12_Witness ==
    \E c, d \in Conns :
        /\ c # d
        /\ c \in created /\ c \notin activeConn
        /\ d \in activeConn
        /\ \E t \in Returned(c) : closeRet[t] = "nil"
        /\ Len(closeNotify[c]) >= 1
        /\ Fired(c, closeNotify[c][1]) = 1

(***************************************************************************)
(* C13: after Shutdown has been called, the accept loop, when it has       *)
(* returned, has returned ErrServerClosed.                                 *)
(***************************************************************************)
C13_AcceptReturnsServerClosed ==
    (pc[S] # "idle" /\ serveRet # "none") => serveRet = "ErrServerClosed"

(***************************************************************************)
(* C14: SetID does not deadlock against Close.  No task waits in bindID    *)
(* for the holder's channel with srv.mu held while the task that is to     *)
(* close that channel (the holder's Close, in untrack) waits for srv.mu.   *)
(***************************************************************************)
C14_NoLockInversion ==
    \A t, u \in ConnTasks :
        ~(/\ pc[t] = "bindWait"
          /\ mu = t
          /\ ~untrackedCh[tgt[t]]
          /\ pc[u] = "untrack"
          /\ conn[u] = tgt[t])

(***************************************************************************)
(* C15: after a failed socket write the writer loop calls Close and then   *)
(* answers the task in EndWrite with the error; it does not block for      *)
(* good.  The writer, holding the failed request, never waits in Close     *)
(* (for srv.mu in untrack, or for the channel that untrack closes) while   *)
(* srv.mu is held by a call that has returned without unlocking it.        *)
(***************************************************************************)
C15_WriteErrorDelivered ==
    (wcur # NoTask /\ pc[W] \in {"untrack", "waitCh"})
    => ~(mu = S /\ pc[S] = "returned")

(***************************************************************************)
(* C16: readMore is called for a frame only once its consumer no longer    *)
(* needs it: when readMore has been called for a frame, the handler call   *)
(* that reads the frame is not running any more (res.f is "valid until     *)
(* readMore is called", part_000:208-213).                                 *)
(***************************************************************************)
C16_ReadMoreAfterUse ==
    \A n \in gated : Ended(n)

\* ---------------------------------------------------------------------
\* ServeMux (server.go:36-80): SpecMux.
\* A pool of MaxMuxCalls calls, each a Handle or a ServeQRPC on one mux,
\* over two cmds.  mux.mu is a sync.RWMutex: RLock waits while a Lock is
\* waiting or held, Lock waits until no read lock is held.
\* ---------------------------------------------------------------------
MaxMuxCalls == 4
MuxTasks == {"mux"} \X (1..MaxMuxCalls)
Cmds == {1, 2}
MuxHandlers == {"h", "nil"}

\* every step of SpecMux leaves the connection, writer, reader and
\* shutdown state alone
muxFrame ==
    UNCHANGED <<srvVars, scVars, conn, tgt, arg, nIdx, nLen, closeRet, nSeen,
                trace, writeVars, serveVars, ioErr, shutVars>>

\* mux.Handle(cmd, handler) is called: mux.mu.Lock() announces the writer
HandleCall(t, cmd, handler) ==
    /\ pc[t] = "idle"
    /\ InOrder(t)
    /\ pc' = [pc EXCEPT ![t] = "Lock"]
    /\ muxCmd' = [muxCmd EXCEPT ![t] = [cmd |-> cmd, handler |-> handler]]
    /\ muxPending' = muxPending \cup {t}
    /\ UNCHANGED <<muxM, muxReaders, muxCalled>>
    /\ muxFrame

\* Handle once Lock is granted: panics on a nil handler or on a cmd that
\* is registered, else stores the handler; the deferred Unlock runs on
\* every path
Handle(t) ==
    /\ pc[t] = "Lock"
    /\ muxReaders = 0
    /\ IF muxCmd[t].handler = "nil" \/ muxCmd[t].cmd \in muxM
       THEN /\ pc' = [pc EXCEPT ![t] = "panicked"]
            /\ muxM' = muxM
       ELSE /\ pc' = [pc EXCEPT ![t] = "returned"]
            /\ muxM' = muxM \cup {muxCmd[t].cmd}
    /\ muxPending' = muxPending \ {t}
    /\ UNCHANGED <<muxReaders, muxCmd, muxCalled>>
    /\ muxFrame

\* mux.ServeQRPC(w, r) is called with r.Cmd = cmd
ServeQRPCCall(t, cmd) ==
    /\ pc[t] = "idle"
    /\ InOrder(t)
    /\ pc' = [pc EXCEPT ![t] = "RLock"]
    /\ muxCmd' = [muxCmd EXCEPT ![t] = [cmd |-> cmd, handler |-> "h"]]
    /\ UNCHANGED <<muxM, muxReaders, muxPending, muxCalled>>
    /\ muxFrame

\* mux.mu.RLock() is granted
ServeQRPCRLock(t) ==
    /\ pc[t] = "RLock"
    /\ muxPending = {}
    /\ muxReaders' = muxReaders + 1
    /\ pc' = [pc EXCEPT ![t] = "locked"]
    /\ UNCHANGED <<muxM, muxPending, muxCmd, muxCalled>>
    /\ muxFrame

\* the lookup: an unknown cmd returns at once, a known one calls
\* RUnlock and goes on to the handler
ServeQRPC(t) ==
    /\ pc[t] = "locked"
    /\ IF muxCmd[t].cmd \notin muxM
       THEN /\ pc' = [pc EXCEPT ![t] = "returned"]
            /\ muxReaders' = muxReaders
       ELSE /\ pc' = [pc EXCEPT ![t] = "handler"]
            /\ muxReaders' = muxReaders - 1
    /\ UNCHANGED <<muxM, muxPending, muxCmd, muxCalled>>
    /\ muxFrame

\* h.ServeQRPC(w, r) runs and returns
ServeQRPCHandler(t) ==
    /\ pc[t] = "handler"
    /\ muxCalled' = [muxCalled EXCEPT ![t] = TRUE]
    /\ pc' = [pc EXCEPT ![t] = "returned"]
    /\ UNCHANGED <<muxM, muxReaders, muxPending, muxCmd>>
    /\ muxFrame

InitMux ==
    /\ mu = NoTask
    /\ id2Conn = [i \in Ids |-> NoConn]
    /\ activeConn = {}
    /\ created = {}
    /\ scid = [c \in Conns |-> ""]
    /\ untrackFlag = [c \in Conns |-> 0]
    /\ untrackedCh = [c \in Conns |-> FALSE]
    /\ closeNotify = [c \in Conns |-> <<>>]
    /\ rwcClosed = [c \in Conns |-> FALSE]
    /\ ctxDone = [c \in Conns |-> FALSE]
    /\ pc = [t \in MuxTasks |-> "idle"]
    /\ conn = [t \in MuxTasks |-> NoConn]
    /\ tgt = [t \in MuxTasks |-> NoConn]
    /\ arg = [t \in MuxTasks |-> ""]
    /\ nIdx = [t \in MuxTasks |-> 1]
    /\ nLen = [t \in MuxTasks |-> 0]
    /\ closeRet = [t \in MuxTasks |-> "none"]
    /\ nSeen = [t \in MuxTasks |-> 0]
    /\ trace = [c \in Conns |-> <<>>]
    /\ cs = <<>>
    /\ sub = <<>>
    /\ ewRet = <<>>
    /\ wcur = NoTask
    /\ pushID = 0
    /\ wire = <<>>
    /\ oplog = <<>>
    /\ frames = <<>>
    /\ gate = 0
    /\ cur = 0
    /\ panicked = <<>>
    /\ gated = {}
    /\ ioErr = FALSE
    /\ listeners = {}
    /\ lnClosed = FALSE
    /\ doneChan = FALSE
    /\ serveCtx = FALSE
    /\ shutRet = "none"
    /\ serveRet = "none"
    /\ inflight = {}
    /\ muxM = {}
    /\ muxReaders = 0
    /\ muxPending = {}
    /\ muxCmd = [t \in MuxTasks |-> [cmd |-> 1, handler |-> "h"]]
    /\ muxCalled = [t \in MuxTasks |-> FALSE]

NextMux ==
    \/ \E t \in MuxTasks, cmd \in Cmds, handler \in MuxHandlers :
          HandleCall(t, cmd, handler)
    \/ \E t \in MuxTasks : Handle(t)
    \/ \E t \in MuxTasks, cmd \in Cmds : ServeQRPCCall(t, cmd)
    \/ \E t \in MuxTasks : ServeQRPCRLock(t)
    \/ \E t \in MuxTasks : ServeQRPC(t)
    \/ \E t \in MuxTasks : ServeQRPCHandler(t)

SpecMux == InitMux /\ [][NextMux]_vars

\* C17: a ServeQRPC call for a cmd with no handler returns silently and
\* releases the mux's read guard: every read lock that is held belongs to
\* a ServeQRPC call that is still between RLock and its lookup, so that a
\* later Handle and a later ServeQRPC are never kept waiting by a call
\* that has returned; and such a call invokes no handler.
C17_UnknownCmdReleasesGuard ==
    /\ muxReaders = Cardinality({t \in MuxTasks : pc[t] = "locked"})
    /\ \A t \in MuxTasks :
          (pc[t] = "returned" /\ muxCmd[t].cmd \notin muxM) => ~muxCalled[t]

\* C18: whenever a connection's teardown (closeUntracked) runs, it closes
\* the socket, then cancels connCtx, then invokes every notifier that is
\* registered, in insertion order; when the teardown has returned, connCtx
\* is cancelled and each registered notifier has been invoked.
C18_TeardownOrder ==
    [][\A t \in ConnTasks :
          /\ (pc[t] = "closeUntracked" /\ pc'[t] # "closeUntracked")
             => /\ trace'[tgt[t]] = trace[tgt[t]] \o <<RwcCloseOk, CancelCtx>>
                /\ ctxDone'[tgt[t]]
          /\ (pc[t] = "notify" /\ trace'[tgt[t]] # trace[tgt[t]])
             => trace'[tgt[t]] =
                   Append(trace[tgt[t]], closeNotify[tgt[t]][nIdx[t]])
          /\ (pc[t] \in {"closeUntracked", "notify"}
                 /\ pc'[t] \notin {"closeUntracked", "notify"})
             => /\ ctxDone'[tgt[t]]
                /\ AllNotified(tgt[t], Len(closeNotify[tgt[t]]))']_vars

\* No SetID, bindID, untrack or Close call is under way.
AtRest == \A t \in ConnTasks : pc[t] \in {"idle", "returned", "closeReturned"}

\* C19: registry invariant.  Outside a SetID/untrack critical section,
\* every entry id2Conn[id] = c names a connection c that is in activeConn
\* and whose id field is id: no closed connection is left in id2Conn and
\* no connection is registered under two ids.
C19_RegistryInvariant ==
    (mu = NoTask /\ AtRest)
    => \A id \in Ids :
          id2Conn[id] # NoConn
          => /\ id2Conn[id] \in activeConn
             /\ scid[id2Conn[id]] = id

\* The connection is live: no task has called sc.Close() and its context
\* is not done.
Live == ~CloseCalled /\ ~CtxDone(ServeConn)

\* C20: after a handler call has ended on a live connection, by return or
\* by panic, the request's stream is self-closed; when the handler left
\* the stream open, handleRequestPanic submits a frame with StreamRstFlag
\* on the request's id, and when the stream was already self-closed it
\* submits no frame.
C20_HandlerEndSelfClosed ==
    /\ [](\A n \in Received :
             (Ended(n) /\ Live) => IsSelfClosed(cs[frames[n].id]))
    /\ [][\A h \in Handlers :
             (\/ (pc[h] \in {"run", "wrote"} /\ panicked'[h] # panicked[h])
              \/ (pc[h] \in {"run", "wrote"} /\ pc'[h] = "ended")
              \/ (pc[h] = "wrote" /\ pc'[h] # "wrote"))
             => IF IsSelfClosed(cs[frames[h[2]].id])
                THEN sub'[h] = sub[h] /\ pc'[h] = "ended"
                ELSE /\ pc'[h] = "EndWrite"
                     /\ sub'[h].id = frames[h[2]].id
                     /\ sub'[h].flags = {"Rst"}]_vars

\* On a live connection one handler panicked with its stream open and its
\* automatic Rst was written, and another returned after closing its
\* stream itself, so that no Rst was submitted for it.
C20_Witness ==
    \E n, m \in Received :
        /\ n # m /\ Live
        /\ Ended(n) /\ panicked[H(n)]
        /\ sub[H(n)].kind = "auto" /\ ewRet[H(n)] = "nil"
        /\ Cardinality(RstOnWire(frames[n].id)) = 1
        /\ Ended(m) /\ ~panicked[H(m)]
        /\ sub[H(m)].kind = "handler" /\ ewRet[H(m)] = "nil"
        /\ RstOnWire(frames[m].id) = {}
        /\ IsSelfClosed(cs[frames[m].id])
====
